---- MODULE Spec2Model ----
(***************************************************************************)
(* MindMitra: the chat-turn pipeline of the FastAPI backend, the Supabase  *)
(* tables with their row-level-security policies, the journal page and the *)
(* daily mood check-in of the Next.js frontend.  The backend's sources are *)
(* not part of the frontend tree; the pipeline follows its design          *)
(* (sections 4.1 to 4.5 and 7).                                            *)
(*                                                                         *)
(* Confidences are integers in percent (0.95 is 95).  A text is a record   *)
(* [head, pad]: the characters of head followed by pad filler characters   *)
(* "x" (a lower-case letter that occurs in no crisis phrase), so that a    *)
(* text of 2001 characters is a small value.                               *)
(***************************************************************************)
EXTENDS Integers, Sequences, FiniteSets, TLC

\* ------------------------------------------------------------------ bounds

MaxReq == 2
MaxTurns == 1
MaxJournal == 2
TickDays == 8
MaxNow == 8
MaxLoads == 2
MaxPending == 1
MaxAccess == 4
MaxRuns == 3

\* --------------------------------------------------------------- constants

MaxMessageLength == 2000
HighRiskThreshold == 85
JournalLimit == 20

Users == {"u1", "u2"}

Labels == {"joy", "sadness", "anger", "fear", "surprise", "disgust", "neutral"}

NegativeLabels == {"sadness", "fear", "anger"}

CrisisPhrases == {<<"e", "n", "d">>}

FallbackReply == "fallback"

GeneratedReply == "generated"

Null == "null"

\* ------------------------------------------------------------------- texts

Text(h, p) == [head |-> h, pad |-> p]

TextLen(t) == Len(t.head) + t.pad

LowerChar(c) ==
    CASE c = "E" -> "e"
      [] c = "N" -> "n"
      [] c = "D" -> "d"
      [] OTHER -> c

ToLower(t) == [head |-> [i \in 1..Len(t.head) |-> LowerChar(t.head[i])], pad |-> t.pad]

\* s.includes(p): p occurs in s as a contiguous run of characters.  A phrase
\* holds no filler character, so it can only lie within the head.
Includes(t, p) ==
    \E i \in 1..Len(t.head) :
        /\ i + Len(p) - 1 <= Len(t.head)
        /\ SubSeq(t.head, i, i + Len(p) - 1) = p

RECURSIVE TrimStart(_)
TrimStart(s) == IF s # <<>> /\ Head(s) = " " THEN TrimStart(Tail(s)) ELSE s

RECURSIVE TrimEnd(_)
TrimEnd(s) ==
    IF s # <<>> /\ s[Len(s)] = " " THEN TrimEnd(SubSeq(s, 1, Len(s) - 1)) ELSE s

\* String.prototype.trim: white space removed at both ends.
Trim(t) ==
    IF t.pad = 0
    THEN Text(TrimEnd(TrimStart(t.head)), 0)
    ELSE Text(TrimStart(t.head), t.pad)

Empty == Text(<<>>, 0)

\* ------------------------------------------------------------------- state

VARIABLES
    chats,            \* table chats: rows [id, user_id, role, message, emotion, created_at]
    mood_logs,        \* table mood_logs: rows [id, user_id, emotion, confidence, created_at]
    journal_entries,  \* table journal_entries: rows [id, user_id, content, mood, created_at]
    nextId,           \* the next generated id of a chats or mood_logs row
    nextJournalId,    \* the next generated id of a journal_entries row
    now,              \* the current day
    reqs,             \* POST /chat requests: request number -> the orchestrator's record
    nextReq,          \* the number of the next POST /chat request
    moodResp,         \* the last GET /mood response, with who asked for it
    journal,          \* the journal page of each signed-in user: [userId, entries]
    lastDelete,       \* the last handleDelete call: who, which id, the rows it removed
    det,              \* the crisis detector applied to one input: [text, label, conf, done, flag]
    variant,          \* which MoodCheckIn.tsx is built: "blocking" or "optimistic"
    lastMoodCheckIn,  \* localStorage item lastMoodCheckIn: <<>> when absent
    page,             \* the chat page: [pc, userId, showMoodCheckIn, timer]
    form,             \* the MoodCheckIn component: [selected, submitted, closeTimer]
    pending,          \* is the check-in's POST /chat in flight
    toast,            \* the last toast of the check-in
    loads,            \* how many times the chat page was loaded
    shown,            \* when the popup appeared: pairs <<day, load>>
    fetched,          \* how the check-in's last completed POST /chat ended
    api,              \* one call of sendMessage or getMoodHistory: [fn, pc, net, fetches, outcome]
    sb,               \* module lib/supabase.ts: [url, key, _supabase, created, used, throws]
    messages,         \* the chat page's message list
    input,            \* the text of the chat page's textarea
    isLoading,        \* the chat page's isLoading
    latestEmotion,    \* the chat page's latestEmotion
    showCrisisModal,  \* the chat page's showCrisisModal
    inflight,         \* the sendMessage calls of the page that have not settled
    sendLog,          \* the last handleSend call: [flip, last]; flip changes at every call
    dash              \* the dashboard page: [pc, days, moodData, loading, runs]

storeVars == <<chats, mood_logs, journal_entries, nextId, nextJournalId, now>>

journalVars == <<journal, lastDelete>>

dataVars == <<chats, mood_logs, journal_entries, nextId, nextJournalId, reqs,
              nextReq, moodResp, journal, lastDelete>>

checkInVars == <<variant, lastMoodCheckIn, page, form, pending, toast, loads, shown,
                 fetched>>

sendVars == <<messages, input, isLoading, latestEmotion, showCrisisModal, inflight,
              sendLog>>

clientVars == <<api, sb, sendVars>>

vars == <<chats, mood_logs, journal_entries, nextId, nextJournalId, now, reqs,
          nextReq, moodResp, journal, lastDelete, det, variant, lastMoodCheckIn,
          page, form, pending, toast, loads, shown, fetched, api, sb, messages,
          input,
          isLoading, latestEmotion, showCrisisModal, inflight, sendLog, dash>>

NoDelete == [caller |-> Null, id |-> 0, removed |-> {}]

\* ------------------------------------------------- tables and their policies

\* ALTER TABLE ... ENABLE ROW LEVEL SECURITY
RlsEnabledOnChatsOnly(table) == table \in {"chats", "mood_logs"}

RlsEnabled(table) == table \in {"chats", "mood_logs", "journal_entries"}

\* CREATE POLICY ... ON table FOR cmd USING / WITH CHECK (auth.uid()::text = user_id)
Policies ==
    { [table |-> "chats", cmd |-> "SELECT"],
      [table |-> "chats", cmd |-> "INSERT"],
      [table |-> "mood_logs", cmd |-> "SELECT"],
      [table |-> "mood_logs", cmd |-> "INSERT"],
      [table |-> "journal_entries", cmd |-> "SELECT"],
      [table |-> "journal_entries", cmd |-> "INSERT"] }

\* A command of the signed-in user uid (anon key and the user's JWT) on a row:
\* with row-level security enabled it needs a policy for that command, and
\* every policy of the migration compares auth.uid() with the row's user_id.
PolicyAllows(table, cmd, uid, row) ==
    \/ ~RlsEnabled(table)
    \/ \E p \in Policies : p.table = table /\ p.cmd = cmd /\ uid = row.user_id

\* The CHECK constraints of the tables.
CheckConstraint(table, row) ==
    CASE table = "chats" -> row.role \in {"user", "assistant"}
      [] table = "mood_logs" -> row.confidence >= 0 /\ row.confidence <= 100
      [] OTHER -> TRUE

ChatRow(id, u, role, t, e) ==
    [id |-> id, user_id |-> u, role |-> role, message |-> t, emotion |-> e,
     created_at |-> now]

MoodRow(id, u, e, c) ==
    [id |-> id, user_id |-> u, emotion |-> e, confidence |-> c, created_at |-> now]

JournalRow(id, u, t) ==
    [id |-> id, user_id |-> u, content |-> t, mood |-> Null, created_at |-> now]

Owners(rows) == {r.user_id : r \in rows}

\* ------------------------------------------------ the chat turn (backend)

Services == {"classifier", "generator", "store"}

Writes == {"user", "assistant", "mood"}

Failure == <<"fail", 0>>

\* What the classifier can answer: a label with a confidence, or no answer.
Outcome(l, c) == <<l, c>>

NoReq ==
    [pc |-> "None", caller |-> Null, user_id |-> Null, message |-> Empty,
     outcome |-> Failure, label |-> Null, conf |-> 0, crisis |-> FALSE,
     step3 |-> FALSE, reply |-> Null, genFailed |-> FALSE, failed |-> {},
     error |-> Null, called |-> {}, rows |-> {}]

\* Step 1: the message text is neither empty nor longer than the maximum.
ValidInputNoUpperLimit(t) == TextLen(t) > 0

ValidInput(t) == TextLen(t) > 0 /\ TextLen(t) <= MaxMessageLength

\* 4.2: a crisis phrase in the lower-cased text, or a negative label with a
\* confidence above the high-risk threshold.
DetectCrisisCaseSensitive(t, l, c) ==
    \/ \E p \in CrisisPhrases : Includes(t, p)
    \/ l \in NegativeLabels /\ c > HighRiskThreshold

DetectCrisis(t, l, c) ==
    \/ \E p \in CrisisPhrases : Includes(ToLower(t), p)
    \/ l \in NegativeLabels /\ c > HighRiskThreshold

ClampNothing(c) == c

Clamp(c) == IF c < 0 THEN 0 ELSE IF c > 100 THEN 100 ELSE c

\* 4.1 and step 2: the classifier's result, neutral with confidence 0 when the
\* classifier fails.
Classified(o) ==
    IF o = Failure
    THEN [label |-> "neutral", conf |-> 0]
    ELSE [label |-> o[1], conf |-> Clamp(o[2])]

\* The client's request: POST /chat with body {user_id, message}.  The body
\* is all the backend sees: caller records who sent it and is read by no
\* step of the orchestrator.
Post(c, u, t) ==
    /\ nextReq <= MaxReq
    /\ reqs' = [reqs EXCEPT ![nextReq] =
                   [NoReq EXCEPT !.pc = "Received", !.caller = c, !.user_id = u,
                                 !.message = t]]
    /\ nextReq' = nextReq + 1

PostChat(c, u, t) ==
    /\ Post(c, u, t)
    /\ UNCHANGED <<storeVars, moodResp, journalVars>>
    /\ UNCHANGED <<det, dash, checkInVars, clientVars>>

\* Step 1: reject.
Reject(r) ==
    /\ reqs[r].pc = "Received"
    /\ ~ValidInput(reqs[r].message)
    /\ reqs' = [reqs EXCEPT ![r].pc = "Failed", ![r].error = "InvalidInput"]
    /\ UNCHANGED <<storeVars, nextReq, moodResp, journalVars>>
    /\ UNCHANGED <<det, dash, checkInVars, clientVars>>

\* Step 2: classify the emotion.
Classify(r, o) ==
    /\ reqs[r].pc = "Received"
    /\ ValidInput(reqs[r].message)
    /\ reqs' = [reqs EXCEPT ![r].pc = "Classified",
                            ![r].outcome = o,
                            ![r].label = Classified(o).label,
                            ![r].conf = Classified(o).conf,
                            ![r].called = @ \cup {"classifier"}]
    /\ UNCHANGED <<storeVars, nextReq, moodResp, journalVars>>
    /\ UNCHANGED <<det, dash, checkInVars, clientVars>>

\* Step 3: the crisis flag.
CrisisCheck(r) ==
    /\ reqs[r].pc = "Classified"
    /\ LET flag == DetectCrisis(reqs[r].message, reqs[r].label, reqs[r].conf)
       IN reqs' = [reqs EXCEPT ![r].pc = "CrisisChecked", ![r].crisis = flag,
                               ![r].step3 = flag]
    /\ UNCHANGED <<storeVars, nextReq, moodResp, journalVars>>
    /\ UNCHANGED <<det, dash, checkInVars, clientVars>>

\* Step 4: the state, the reply and the crisis flag after a generator call
\* that succeeded (ok) or failed.
GeneratedFlagsCrisisOnFailure(req, ok) ==
    [pc |-> "Generated", error |-> Null,
     reply |-> IF ok THEN GeneratedReply ELSE FallbackReply,
     crisis |-> IF ok THEN req.crisis ELSE TRUE]

GeneratedFailsOnFailure(req, ok) ==
    [pc |-> IF ok THEN "Generated" ELSE "Failed",
     error |-> IF ok THEN Null ELSE "GenerationUnavailable",
     reply |-> IF ok THEN GeneratedReply ELSE Null,
     crisis |-> req.crisis]

Generated(req, ok) ==
    [pc |-> "Generated", error |-> Null,
     reply |-> IF ok THEN GeneratedReply ELSE FallbackReply,
     crisis |-> req.crisis]

Generate(r, ok) ==
    /\ reqs[r].pc = "CrisisChecked"
    /\ reqs' = [reqs EXCEPT ![r].pc = Generated(reqs[r], ok).pc,
                            ![r].error = Generated(reqs[r], ok).error,
                            ![r].reply = Generated(reqs[r], ok).reply,
                            ![r].crisis = Generated(reqs[r], ok).crisis,
                            ![r].genFailed = ~ok,
                            ![r].called = @ \cup {"generator"}]
    /\ UNCHANGED <<storeVars, nextReq, moodResp, journalVars>>
    /\ UNCHANGED <<det, dash, checkInVars, clientVars>>

\* Step 5: the rows a turn writes.  The backend holds the service-role key,
\* which bypasses row-level security.
TurnRowsBothAsUser(req, id) ==
    [user |-> ChatRow(id, req.user_id, "user", req.message, req.label),
     assistant |-> ChatRow(id + 1, req.user_id, "user",
                           Text(<<req.reply>>, 0), Null),
     mood |-> MoodRow(id + 2, req.user_id, req.label, req.conf)]

TurnRows(req, id) ==
    [user |-> ChatRow(id, req.user_id, "user", req.message, req.label),
     assistant |-> ChatRow(id + 1, req.user_id, "assistant",
                           Text(<<req.reply>>, 0), Null),
     mood |-> MoodRow(id + 2, req.user_id, req.label, req.conf)]

\* f: the writes that fail because the store is degraded.  A write the
\* table's CHECK constraint refuses fails too.
Persist(r, f) ==
    /\ reqs[r].pc = "Generated"
    /\ LET rows == TurnRows(reqs[r], nextId)
           lost == f \cup {w \in {"user", "assistant"} :
                              ~CheckConstraint("chats", rows[w])}
                     \cup {w \in {"mood"} : ~CheckConstraint("mood_logs", rows[w])}
           done == Writes \ lost
       IN /\ chats' = chats \cup {rows[w] : w \in done \cap {"user", "assistant"}}
          /\ mood_logs' = mood_logs \cup {rows[w] : w \in done \cap {"mood"}}
          /\ reqs' = [reqs EXCEPT ![r].pc = "Persisted", ![r].failed = lost,
                                  ![r].called = @ \cup {"store"},
                                  ![r].rows = {rows[w].id : w \in done}]
    /\ nextId' = nextId + 3
    /\ UNCHANGED <<journal_entries, nextJournalId, now, nextReq, moodResp,
                   journalVars>>
    /\ UNCHANGED <<det, dash, checkInVars, clientVars>>

\* Step 6: respond with {reply, emotion, confidence, crisis}.
Respond(r) ==
    /\ reqs[r].pc = "Persisted"
    /\ reqs' = [reqs EXCEPT ![r].pc = "Responded"]
    /\ UNCHANGED <<storeVars, nextReq, moodResp, journalVars>>
    /\ UNCHANGED <<det, dash, checkInVars, clientVars>>

Response(req) ==
    [reply |-> req.reply, emotion |-> req.label, confidence |-> req.conf,
     crisis |-> req.crisis]

\* ------------------------------------------------------- GET /mood/{user_id}

DaysOptions == {7, 14, 30}

RECURSIVE SortById(_)
SortById(S) ==
    IF S = {} THEN <<>>
    ELSE LET m == CHOOSE x \in S : \A y \in S : x.id <= y.id
         IN <<m>> \o SortById(S \ {m})

Reverse(s) == [i \in 1..Len(s) |-> s[Len(s) + 1 - i]]

Take(s, n) == SubSeq(s, 1, IF Len(s) < n THEN Len(s) ELSE n)

\* listMoodHistory(userId, sinceDate): the samples of userId since sinceDate.
MoodHistory(u, since) == {m \in mood_logs : m.user_id = u /\ m.created_at >= since}

MoodData(rows) ==
    [distribution |-> [e \in {m.emotion : m \in rows} |->
                          Cardinality({m \in rows : m.emotion = e})],
     timeline |-> [i \in 1..Cardinality(rows) |->
                      [date |-> SortById(rows)[i].created_at,
                       emotion |-> SortById(rows)[i].emotion,
                       confidence |-> SortById(rows)[i].confidence]],
     total_entries |-> Cardinality(rows)]

\* One answer of GET /mood: for whom, when, and the samples the table held
\* then.
NoMoodAnswer ==
    [user_id |-> Null, days |-> 0, data |-> MoodData({}), at |-> 0, seen |-> {}]

\* The last answer, and in prev the answer before it.
NoMoodResp ==
    [caller |-> Null, user_id |-> Null, days |-> 0, owners |-> {},
     data |-> MoodData({}), at |-> 0, seen |-> {}, prev |-> NoMoodAnswer]

\* The client's request GET /mood/{user_id}?days=N and the backend's answer.
\* The request carries the user id of the path and nothing else.  The
\* handler reads and writes nothing.
GetMoodConsuming(c, u, days) ==
    /\ LET rows == MoodHistory(u, now - days)
       IN /\ moodResp' = [caller |-> c, user_id |-> u, days |-> days,
                          owners |-> Owners(rows), data |-> MoodData(rows),
                          at |-> now, seen |-> mood_logs,
                          prev |-> [k \in DOMAIN NoMoodAnswer |-> moodResp[k]]]
          /\ mood_logs' = mood_logs \ rows
    /\ UNCHANGED <<chats, journal_entries, nextId, nextJournalId, now, reqs,
                   nextReq, journalVars>>
    /\ UNCHANGED <<det, dash, checkInVars, clientVars>>

GetMood(c, u, days) ==
    /\ LET rows == MoodHistory(u, now - days)
       IN moodResp' = [caller |-> c, user_id |-> u, days |-> days,
                       owners |-> Owners(rows), data |-> MoodData(rows),
                       at |-> now, seen |-> mood_logs,
                       prev |-> [k \in DOMAIN NoMoodAnswer |-> moodResp[k]]]
    /\ UNCHANGED <<storeVars, reqs, nextReq, journalVars>>
    /\ UNCHANGED <<det, dash, checkInVars, clientVars>>

\* Time passes.
Tick ==
    /\ now + TickDays <= MaxNow
    /\ now' = now + TickDays
    /\ UNCHANGED <<dataVars, det, dash, checkInVars, clientVars>>

\* ------------------------------------------------------------ journal page

NoPage == [userId |-> Null, entries |-> <<>>]

\* The rows a command of the signed-in user p can see or touch.
Visible(p, cmd) ==
    {e \in journal_entries :
        /\ PolicyAllows("journal_entries", "SELECT", p, e)
        /\ PolicyAllows("journal_entries", cmd, p, e)}

\* The init effect of the page of the signed-in user p: the session's user
\* id, and the user's 20 latest entries, latest first.
JournalInit(p) ==
    /\ journal' = [journal EXCEPT ![p] =
          [userId |-> p,
           entries |-> Take(Reverse(SortById(
                          {e \in Visible(p, "SELECT") : e.user_id = p})),
                          JournalLimit)]]
    /\ UNCHANGED <<storeVars, reqs, nextReq, moodResp, lastDelete>>
    /\ UNCHANGED <<det, dash, checkInVars, clientVars>>

\* handleSave with the text area holding content.
handleSave(p, content) ==
    /\ TextLen(Trim(content)) > 0
    /\ journal[p].userId # Null
    /\ Cardinality(journal_entries) < MaxJournal
    /\ LET row == JournalRow(nextJournalId, journal[p].userId, Trim(content))
       IN IF PolicyAllows("journal_entries", "INSERT", p, row)
          THEN /\ journal_entries' = journal_entries \cup {row}
               /\ nextJournalId' = nextJournalId + 1
               /\ journal' = [journal EXCEPT ![p].entries = <<row>> \o @]
          ELSE UNCHANGED <<journal_entries, nextJournalId, journal>>
    /\ UNCHANGED <<chats, mood_logs, nextId, now, reqs, nextReq, moodResp,
                   lastDelete>>
    /\ UNCHANGED <<det, dash, checkInVars, clientVars>>

\* handleDelete(id): delete().eq("id", id) as the signed-in user p, then the
\* entry is dropped from the list shown.  A delete that matches no row the
\* user may delete is no error.
handleDelete(p, id) ==
    /\ LET gone == {e \in Visible(p, "DELETE") : e.id = id}
       IN /\ journal_entries' = journal_entries \ gone
          /\ lastDelete' = [caller |-> p, id |-> id, removed |-> gone]
    /\ journal' = [journal EXCEPT ![p].entries =
                      SelectSeq(@, LAMBDA e : e.id # id)]
    /\ UNCHANGED <<chats, mood_logs, nextId, nextJournalId, now, reqs, nextReq,
                   moodResp>>
    /\ UNCHANGED <<det, dash, checkInVars, clientVars>>

\* ------------------------------------------------- the crisis detector alone

NoDet == [text |-> Empty, label |-> Null, conf |-> 0, done |-> FALSE, flag |-> FALSE]

Detect ==
    /\ ~det.done
    /\ det' = [det EXCEPT !.done = TRUE,
                          !.flag = DetectCrisis(det.text, det.label, det.conf)]
    /\ UNCHANGED <<storeVars, dataVars, checkInVars, clientVars, dash>>

\* ------------------------------------------------ the daily mood check-in

Moods == {"joy", "neutral", "sadness", "fear", "anger", "surprise"}

\* new Date().toDateString(): one string per calendar day.
DateString(day) == <<"date", day>>

NoChatPage == [pc |-> "unloaded", userId |-> Null, showMoodCheckIn |-> FALSE,
               timer |-> FALSE]

NoForm == [selected |-> Null, submitted |-> FALSE, closeTimer |-> FALSE]

WelcomeText == Text(<<"hello">>, 0)

ApologyText == Text(<<"sorry">>, 0)

\* The message of the welcome effect.
Welcome ==
    [id |-> <<"welcome", 0>>, role |-> "assistant", message |-> WelcomeText,
     emotion |-> Null, timestamp |-> <<>>]

\* The chat page is loaded: a new page, with no state or timer of an
\* earlier one; the welcome effect fills the empty message list.  Nothing
\* of the new page awaits a request of the old one.
Mount ==
    /\ loads < MaxLoads
    /\ loads' = loads + 1
    /\ page' = [NoChatPage EXCEPT !.pc = "mounted"]
    /\ form' = NoForm
    /\ pending' = 0
    /\ toast' = Null
    /\ messages' = <<Welcome>>
    /\ input' = Empty
    /\ isLoading' = FALSE
    /\ latestEmotion' = Null
    /\ showCrisisModal' = FALSE
    /\ inflight' = {}
    /\ UNCHANGED <<variant, lastMoodCheckIn, shown, fetched, sendLog>>
    /\ UNCHANGED <<storeVars, dataVars, det, dash, api, sb>>

\* The timer that checkAuth sets when lastMoodCheckIn is not today's string.
CheckInDue(last, day) == last # DateString(day)

\* checkAuth of the auth-check effect: without a session, to the login page.
checkAuth(session) ==
    /\ page.pc = "mounted"
    /\ IF session = Null
       THEN page' = [page EXCEPT !.pc = "redirected"]
       ELSE page' = [page EXCEPT !.pc = "ready", !.userId = session,
                                 !.timer = CheckInDue(lastMoodCheckIn, now)]
    /\ UNCHANGED <<variant, lastMoodCheckIn, form, pending, toast, loads, shown, fetched>>
    /\ UNCHANGED <<storeVars, dataVars, det, dash, clientVars>>

\* setTimeout(() => setShowMoodCheckIn(true), 2000) fires.
ShowTimer ==
    /\ page.timer
    /\ page' = [page EXCEPT !.timer = FALSE, !.showMoodCheckIn = TRUE]
    /\ shown' = shown \cup {<<now, loads>>}
    /\ UNCHANGED <<variant, lastMoodCheckIn, form, pending, toast, loads, fetched>>
    /\ UNCHANGED <<storeVars, dataVars, det, dash, clientVars>>

\* {showMoodCheckIn && userId && <MoodCheckIn .../>}
PopupVisible == page.showMoodCheckIn /\ page.userId # Null

\* A mood button of the form.
Select(m) ==
    /\ PopupVisible
    /\ ~form.submitted
    /\ form' = [form EXCEPT !.selected = m]
    /\ UNCHANGED <<variant, lastMoodCheckIn, page, pending, toast, loads, shown, fetched>>
    /\ UNCHANGED <<storeVars, dataVars, det, dash, clientVars>>

\* onClose: the close button or the backdrop.  It stores nothing.
onClose ==
    /\ PopupVisible
    /\ page' = [page EXCEPT !.showMoodCheckIn = FALSE]
    /\ form' = [NoForm EXCEPT !.closeTimer = form.closeTimer]
    /\ UNCHANGED <<variant, lastMoodCheckIn, pending, toast, loads, shown, fetched>>
    /\ UNCHANGED <<storeVars, dataVars, det, dash, clientVars>>

DoneBeforeSaveAlways(v) == TRUE

DoneBeforeSaveNever(v) == FALSE

\* Which MoodCheckIn.tsx calls onClose() and stores lastMoodCheckIn before
\* its fetch: the optimistic one; the blocking one does neither before the
\* fetch has returned.
DoneBeforeSave(v) == v = "optimistic"

\* handleSubmit up to its await, in each of the two MoodCheckIn.tsx.
handleSubmit ==
    /\ PopupVisible
    /\ ~form.submitted
    /\ form.selected # Null
    /\ pending < MaxPending
    /\ pending' = pending + 1
    /\ IF DoneBeforeSave(variant)
       THEN /\ page' = [page EXCEPT !.showMoodCheckIn = FALSE]
            /\ form' = [NoForm EXCEPT !.closeTimer = form.closeTimer]
            /\ lastMoodCheckIn' = DateString(now)
       ELSE UNCHANGED <<page, form, lastMoodCheckIn>>
    /\ UNCHANGED <<variant, toast, loads, shown, fetched>>
    /\ UNCHANGED <<storeVars, dataVars, det, dash, clientVars>>

FetchResults == {"ok", "notok", "error"}

\* handleSubmit after its await: the fetch resolved with a success status
\* ("ok") or another status ("notok"), or rejected ("error").
FetchDone(result) ==
    /\ pending > 0
    /\ pending' = pending - 1
    /\ fetched' = result
    /\ IF variant = "optimistic"
       THEN /\ toast' = IF result = "ok" THEN "success" ELSE "error"
            /\ UNCHANGED <<page, form, lastMoodCheckIn>>
       ELSE /\ IF result = "error"
               THEN UNCHANGED <<form, lastMoodCheckIn>>
               ELSE /\ form' = [form EXCEPT !.submitted = PopupVisible,
                                            !.closeTimer = TRUE]
                    /\ lastMoodCheckIn' = DateString(now)
            /\ UNCHANGED <<page, toast>>
    /\ UNCHANGED <<variant, loads, shown>>
    /\ UNCHANGED <<storeVars, dataVars, det, dash, clientVars>>

\* setTimeout(onClose, 2000) fires.
CloseTimer ==
    /\ form.closeTimer
    /\ page' = [page EXCEPT !.showMoodCheckIn = FALSE]
    /\ form' = NoForm
    /\ UNCHANGED <<variant, lastMoodCheckIn, pending, toast, loads, shown, fetched>>
    /\ UNCHANGED <<storeVars, dataVars, det, dash, clientVars>>

\* ------------------------------------------------ the chat page: sending

PageLive == page.pc \in {"mounted", "ready"}

\* onChange of the textarea: setInput(e.target.value); maxLength bounds it.
Type(t) ==
    /\ PageLive
    /\ TextLen(t) <= MaxMessageLength
    /\ input' = t
    /\ UNCHANGED <<messages, isLoading, latestEmotion, showCrisisModal, inflight,
                   sendLog>>
    /\ UNCHANGED <<storeVars, dataVars, det, dash, checkInVars, api, sb>>

\* The negation of handleSend's early return.
SendAcceptedWhileLoading == TextLen(Trim(input)) > 0 /\ page.userId # Null

SendAccepted == TextLen(Trim(input)) > 0 /\ ~isLoading /\ page.userId # Null

UserMsg(r, t) ==
    [id |-> <<"user", r>>, role |-> "user", message |-> t, emotion |-> Null,
     timestamp |-> <<now>>]

AiMsg(r, reply) ==
    [id |-> <<"ai", r>>, role |-> "assistant", message |-> Text(<<reply>>, 0),
     emotion |-> Null, timestamp |-> <<now>>]

ErrorMsgWithErrorRole(r) ==
    [id |-> <<"error", r>>, role |-> "error", message |-> ApologyText,
     emotion |-> Null, timestamp |-> <<>>]

ErrorMsgRaw(r) ==
    [id |-> <<"error", r>>, role |-> "assistant",
     message |-> Text(<<"Chat API error: ">>, 0), emotion |-> Null,
     timestamp |-> <<>>]

ErrorMsg(r) ==
    [id |-> <<"error", r>>, role |-> "assistant", message |-> ApologyText,
     emotion |-> Null, timestamp |-> <<>>]

\* handleSend up to its await: the send button or the Enter key.  The
\* request it issues is the next POST /chat.
handleSend ==
    /\ PageLive
    /\ IF SendAccepted
       THEN /\ input' = Empty
            /\ messages' = Append(messages, UserMsg(nextReq, Trim(input)))
            /\ isLoading' = TRUE
            /\ Post(page.userId, page.userId, Trim(input))
            /\ inflight' = inflight \cup {nextReq}
            /\ sendLog' = [flip |-> ~sendLog.flip, last |-> "sent"]
       ELSE /\ sendLog' = [sendLog EXCEPT
                              !.flip = ~@,
                              !.last = IF TextLen(Trim(input)) = 0 THEN "empty"
                                       ELSE IF isLoading THEN "loading"
                                       ELSE "nouser"]
            /\ UNCHANGED <<input, messages, isLoading, inflight, reqs, nextReq>>
    /\ UNCHANGED <<latestEmotion, showCrisisModal>>
    /\ UNCHANGED <<storeVars, moodResp, journalVars, det, dash, checkInVars, api, sb>>

\* if (response.crisis) setShowCrisisModal(true)
CrisisModalFollowsResponse(open, response) == response.crisis

CrisisModalAfter(open, response) == IF response.crisis THEN TRUE ELSE open

WithEmotionOnEveryUserMessage(msgs, id, e) ==
    [i \in 1..Len(msgs) |->
        IF msgs[i].role = "user" THEN [msgs[i] EXCEPT !.emotion = e] ELSE msgs[i]]

\* prev.map((msg) => msg.id === userMsg.id ? { ...msg, emotion } : msg)
WithEmotion(msgs, id, e) ==
    [i \in 1..Len(msgs) |->
        IF msgs[i].id = id THEN [msgs[i] EXCEPT !.emotion = e] ELSE msgs[i]]

\* handleSend after its await, sendMessage having returned the response of
\* request r: the try block and finally.
SendResolve(r) ==
    /\ r \in inflight
    /\ reqs[r].pc = "Responded"
    /\ LET response == Response(reqs[r])
       IN /\ messages' =
                Append(WithEmotion(messages, <<"user", r>>, response.emotion),
                       AiMsg(r, response.reply))
          /\ latestEmotion' = response.emotion
          /\ showCrisisModal' = CrisisModalAfter(showCrisisModal, response)
    /\ isLoading' = FALSE
    /\ inflight' = inflight \ {r}
    /\ UNCHANGED <<input, sendLog>>
    /\ UNCHANGED <<storeVars, dataVars, det, dash, checkInVars, api, sb>>

\* handleSend after its await, sendMessage having thrown (the fetch
\* rejected, or the status was no success): catch and finally.
SendReject(r) ==
    /\ r \in inflight
    /\ messages' = Append(messages, ErrorMsg(r))
    /\ toast' = "error"
    /\ isLoading' = FALSE
    /\ inflight' = inflight \ {r}
    /\ UNCHANGED <<input, latestEmotion, showCrisisModal, sendLog>>
    /\ UNCHANGED <<variant, lastMoodCheckIn, page, form, pending, loads, shown, fetched>>
    /\ UNCHANGED <<storeVars, dataVars, det, dash, api, sb>>

\* onClose of the crisis modal: its close button or its backdrop.
CloseCrisisModal ==
    /\ PageLive
    /\ showCrisisModal
    /\ showCrisisModal' = FALSE
    /\ UNCHANGED <<messages, input, isLoading, latestEmotion, inflight, sendLog>>
    /\ UNCHANGED <<storeVars, dataVars, det, dash, checkInVars, api, sb>>

\* ----------------------------------------------- lib/api.ts: the two helpers

ApiFns == {"sendMessage", "getMoodHistory"}

\* What fetch settles with: a rejection (the network failed), or a response
\* with a status and a body.
NetworkError == [kind |-> "rejected", status |-> 0, body |-> <<"none", Null>>]

HttpResponse(status, body) == [kind |-> "response", status |-> status, body |-> body]

\* A body that is the JSON text of a value, and one that is no JSON.
JsonText(v) == <<"json", v>>

NotJson == <<"html", "page">>

\* response.ok
Ok(status) == status >= 200 /\ status <= 299

\* response.json(): the value of a JSON text.
IsJson(body) == body[1] = "json"

Parse(body) == body[2]

Returned(v) == [kind |-> "return", value |-> v, error |-> <<Null, 0>>]

Thrown(name, status) == [kind |-> "throw", value |-> Null, error |-> <<name, status>>]

NoOutcome == [kind |-> "none", value |-> Null, error |-> <<Null, 0>>]

ErrorPrefix(fn) == IF fn = "sendMessage" THEN "Chat API error: " ELSE "Mood API error: "

\* What the helper fn settles with when its fetch settled with net.
ApiResultIgnoresStatus(fn, net) ==
    IF net.kind = "rejected" THEN Thrown("TypeError", 0)
    ELSE IF IsJson(net.body) THEN Returned(Parse(net.body))
    ELSE Thrown("SyntaxError", 0)

ApiResult(fn, net) ==
    IF net.kind = "rejected" THEN Thrown("TypeError", 0)
    ELSE IF ~Ok(net.status) THEN Thrown(ErrorPrefix(fn), net.status)
    ELSE IF IsJson(net.body) THEN Returned(Parse(net.body))
    ELSE Thrown("SyntaxError", 0)

NoApi == [fn |-> Null, pc |-> "idle", net |-> NetworkError, fetches |-> 0,
          outcome |-> NoOutcome]

\* await fetch(...): the one request of the call.
ApiFetch ==
    /\ api.pc = "called"
    /\ api' = [api EXCEPT !.pc = "fetched", !.fetches = @ + 1]
    /\ UNCHANGED <<storeVars, dataVars, det, dash, checkInVars, sb, sendVars>>

\* The rest of the helper: throw on a status that is not ok, else
\* return response.json().
ApiSettle ==
    /\ api.pc = "fetched"
    /\ api' = [api EXCEPT !.pc = "settled", !.outcome = ApiResult(api.fn, api.net)]
    /\ UNCHANGED <<storeVars, dataVars, det, dash, checkInVars, sb, sendVars>>

\* ------------------------------------------- lib/supabase.ts: the lazy client

\* !v for an environment variable: undefined and the empty string are falsy.
Falsy(v) == v = Null \/ v = ""

\* The module when it has been evaluated: no client.  A client is named by
\* the number of the createClient call that made it; 0 is null.
NoSb == [url |-> Null, key |-> Null, _supabase |-> 0, created |-> 0,
         used |-> <<>>, throws |-> 0]

\* getSupabase(): ok is FALSE when it throws; m is the module after the call.
getSupabaseUncached(m) ==
    IF Falsy(m.url) \/ Falsy(m.key)
    THEN [ok |-> FALSE, m |-> m]
    ELSE [ok |-> TRUE,
          m |-> [m EXCEPT !.created = @ + 1, !._supabase = m.created + 1]]

getSupabase(m) ==
    IF m._supabase # 0
    THEN [ok |-> TRUE, m |-> m]
    ELSE IF Falsy(m.url) \/ Falsy(m.key)
         THEN [ok |-> FALSE, m |-> m]
         ELSE [ok |-> TRUE,
               m |-> [m EXCEPT !.created = @ + 1, !._supabase = m.created + 1]]

\* The get trap of the proxy for the property prop: the property of the
\* client getSupabase() returns (a function is bound to that client).
Access(prop) ==
    /\ Len(sb.used) + sb.throws < MaxAccess
    /\ LET r == getSupabase(sb)
       IN sb' = IF r.ok
                THEN [r.m EXCEPT !.used = Append(@, <<prop, r.m._supabase>>)]
                ELSE [r.m EXCEPT !.throws = @ + 1]
    /\ UNCHANGED <<storeVars, dataVars, det, dash, checkInVars, api, sendVars>>

\* ------------------------------------------------------ the dashboard page

\* useState: moodData null, loading true, days 30; runs are the calls of
\* fetchData the effect has made, each with the days of its render.
NoDash == [pc |-> "unloaded", days |-> 30, moodData |-> <<>>, loading |-> TRUE,
           runs |-> <<>>]

\* One call of fetchData, at its first await.
Run(d) == [days |-> d, stage |-> "session", userId |-> Null, result |-> <<>>]

\* The outside of the dashboard page.
DashFrame == UNCHANGED <<storeVars, dataVars, det, checkInVars, clientVars>>

\* The page is loaded: the effect runs fetchData for the first time.
DashMount ==
    /\ dash.pc = "unloaded"
    /\ dash' = [NoDash EXCEPT !.pc = "mounted", !.runs = <<Run(NoDash.days)>>]
    /\ DashFrame

\* A button of the time range selector, which the page renders once loading
\* is false: setDays(d); a new value of days runs the effect again.
setDays(d) ==
    /\ dash.pc = "mounted"
    /\ ~dash.loading
    /\ d # dash.days
    /\ Len(dash.runs) < MaxRuns
    /\ dash' = [dash EXCEPT !.days = d, !.runs = Append(@, Run(d))]
    /\ DashFrame

\* fetchData after supabase.auth.getSession(): without a session to the
\* login page, else getMoodHistory is called with the days of its render.
fetchDataSession(i, session) ==
    /\ i \in 1..Len(dash.runs)
    /\ dash.runs[i].stage = "session"
    /\ IF session = Null
       THEN dash' = [dash EXCEPT !.pc = "redirected", !.runs[i].stage = "left"]
       ELSE dash' = [dash EXCEPT !.runs[i].stage = "fetching",
                                 !.runs[i].userId = session]
    /\ DashFrame

\* setMoodData(data) of a call of fetchData.
ShownAfter(i, data) == <<data>>

\* getMoodHistory returned: GET /mood/{user_id}?days=N answered with the
\* mood data of the samples of the last N days.  setMoodData, setLoading.
fetchDataResolve(i) ==
    /\ i \in 1..Len(dash.runs)
    /\ dash.runs[i].stage = "fetching"
    /\ LET data == MoodData(MoodHistory(dash.runs[i].userId, now - dash.runs[i].days))
       IN dash' = [dash EXCEPT !.moodData = ShownAfter(i, data),
                               !.loading = FALSE,
                               !.runs[i].stage = "done",
                               !.runs[i].result = <<data>>]
    /\ DashFrame

\* getMoodHistory threw: the error is logged; setLoading(false).
fetchDataReject(i) ==
    /\ i \in 1..Len(dash.runs)
    /\ dash.runs[i].stage = "fetching"
    /\ dash' = [dash EXCEPT !.loading = FALSE, !.runs[i].stage = "failed"]
    /\ DashFrame

\* ------------------------------------------------------------------ inputs

ReqIds == 1..MaxReq

Benign == Text(<<"o", "k">>, 0)

CrisisText == Text(<<"E", "n", "d">>, 0)

AtLimit == Text(<<"o">>, MaxMessageLength - 1)

OverLimit == Text(<<"o">>, MaxMessageLength)

Blank == Text(<<" ">>, 0)

ChatTexts == {Empty, CrisisText, AtLimit, OverLimit}

ChatOutcomes == {Failure, Outcome("sadness", 95), Outcome("joy", 10)}

DataTexts == {CrisisText, Empty}

DataOutcomes == {Outcome("sadness", 95)}

JournalTexts == {Blank, Text(<<" ", "o", "k">>, 0)}

\* Texts with a crisis phrase, in any case and anywhere in the text.
PhraseTexts ==
    { CrisisText,
      Text(<<"e", "n", "d">>, 0),
      Text(<<"o", "E", "N", "D", " ">>, 0),
      Text(<<"e", "n", "d">>, 5) }

\* Texts without one.
PlainTexts ==
    { Empty, Benign, Text(<<"e", "n">>, 0), Text(<<"e", " ", "n", "d">>, 0),
      Text(<<"d", "n", "e">>, 3) }

DetConfs == {0, 10, HighRiskThreshold - 1, HighRiskThreshold,
             HighRiskThreshold + 1, 95, 100}

DataIdle ==
    /\ chats = {}
    /\ mood_logs = {}
    /\ journal_entries = {}
    /\ nextId = 1
    /\ nextJournalId = 1
    /\ now = 0
    /\ reqs = [r \in ReqIds |-> NoReq]
    /\ nextReq = 1
    /\ moodResp = NoMoodResp
    /\ journal = [p \in Users |-> NoPage]
    /\ lastDelete = NoDelete

CheckInIdle ==
    /\ variant = "blocking"
    /\ lastMoodCheckIn = <<>>
    /\ page = NoChatPage
    /\ form = NoForm
    /\ pending = 0
    /\ toast = Null
    /\ loads = 0
    /\ shown = {}
    /\ fetched = Null

SendIdle ==
    /\ messages = <<>>
    /\ input = Empty
    /\ isLoading = FALSE
    /\ latestEmotion = Null
    /\ showCrisisModal = FALSE
    /\ inflight = {}
    /\ sendLog = [flip |-> FALSE, last |-> Null]

ClientIdle ==
    /\ api = NoApi
    /\ sb = NoSb
    /\ SendIdle

\* ------------------------------------------- the chat turn on its own

InitChat == DataIdle /\ det = NoDet /\ dash = NoDash /\ CheckInIdle /\ ClientIdle

Orchestrate(r) ==
    \/ Reject(r)
    \/ \E o \in ChatOutcomes : Classify(r, o)
    \/ CrisisCheck(r)
    \/ \E ok \in BOOLEAN : Generate(r, ok)
    \/ \E f \in SUBSET Writes : Persist(r, f)
    \/ Respond(r)

NextChat ==
    \/ \E u \in Users, t \in ChatTexts : PostChat(u, u, t)
    \/ \E r \in ReqIds : Orchestrate(r)

\* Every outbound call and every write has a bounded timeout, so a request
\* that can take a step takes one.
SpecChat ==
    InitChat /\ [][NextChat]_vars /\ \A r \in ReqIds : WF_vars(Orchestrate(r))

\* ------------------------------------------ the chat and the mood endpoint

DataTurn(r) ==
    \/ Reject(r)
    \/ \E o \in DataOutcomes : Classify(r, o)
    \/ CrisisCheck(r)
    \/ Generate(r, TRUE)
    \/ Persist(r, {})
    \/ Respond(r)

InitMood == DataIdle /\ det = NoDet /\ dash = NoDash /\ CheckInIdle /\ ClientIdle

NextMood ==
    \/ \E c \in Users, u \in Users, t \in DataTexts :
          nextReq <= MaxTurns /\ PostChat(c, u, t)
    \/ \E r \in ReqIds : DataTurn(r)
    \/ \E c \in Users, u \in Users, d \in DaysOptions : GetMood(c, u, d)
    \/ Tick

SpecMood == InitMood /\ [][NextMood]_vars

\* ------------------------------------------ the chat and the journal page

Init == DataIdle /\ det = NoDet /\ dash = NoDash /\ CheckInIdle /\ ClientIdle

\* The journal page next to at most MaxTurns chat turns.
Next ==
    \/ \E u \in Users, t \in DataTexts : nextReq <= MaxTurns /\ PostChat(u, u, t)
    \/ \E r \in ReqIds : DataTurn(r)
    \/ \E p \in Users : JournalInit(p)
    \/ \E p \in Users, t \in JournalTexts : handleSave(p, t)
    \/ \E p \in Users, id \in 1..MaxJournal : handleDelete(p, id)

Spec == Init /\ [][Next]_vars

\* ------------------------------------------------ the crisis detector alone

InitCrisis ==
    /\ DataIdle
    /\ CheckInIdle
    /\ ClientIdle
    /\ det \in {[NoDet EXCEPT !.text = t, !.label = l, !.conf = c] :
                   t \in PhraseTexts \cup PlainTexts, l \in Labels, c \in DetConfs}
    /\ dash = NoDash

NextCrisis == Detect

SpecCrisis == InitCrisis /\ [][NextCrisis]_vars

\* ------------------------------------------------ the daily mood check-in

InitCheckIn ==
    /\ DataIdle
    /\ det = NoDet /\ dash = NoDash
    /\ ClientIdle
    /\ variant \in {"blocking", "optimistic"}
    /\ lastMoodCheckIn = <<>>
    /\ page = NoChatPage
    /\ form = NoForm
    /\ pending = 0
    /\ toast = Null
    /\ loads = 0
    /\ shown = {}
    /\ fetched = Null

NextCheckIn ==
    \/ Mount
    \/ \E s \in Users \cup {Null} : checkAuth(s)
    \/ ShowTimer
    \/ \E m \in Moods : Select(m)
    \/ onClose
    \/ handleSubmit
    \/ \E res \in FetchResults : FetchDone(res)
    \/ CloseTimer
    \/ Tick

SpecCheckIn == InitCheckIn /\ [][NextCheckIn]_vars

\* ----------------------------------------------- the api helpers alone

Statuses == {200, 201, 204, 299, 300, 304, 400, 401, 404, 422, 500, 503}

Bodies == {JsonText("chat"), JsonText("mood"), JsonText("detail"), NotJson}

FetchOutcomes ==
    {NetworkError} \cup {HttpResponse(st, b) : st \in Statuses, b \in Bodies}

InitApi ==
    /\ DataIdle
    /\ det = NoDet /\ dash = NoDash
    /\ CheckInIdle
    /\ api \in {[NoApi EXCEPT !.fn = f, !.pc = "called", !.net = n] :
                   f \in ApiFns, n \in FetchOutcomes}
    /\ sb = NoSb
    /\ SendIdle

NextApi == ApiFetch \/ ApiSettle

SpecApi == InitApi /\ [][NextApi]_vars

\* ----------------------------------------------- the lazy client alone

EnvValues == {Null, "", "set"}

Props == {"auth", "from", "storage"}

InitSb ==
    /\ DataIdle
    /\ det = NoDet /\ dash = NoDash
    /\ CheckInIdle
    /\ api = NoApi
    /\ SendIdle
    /\ sb \in {[NoSb EXCEPT !.url = u, !.key = k] : u \in EnvValues, k \in EnvValues}

NextSb == \E prop \in Props : Access(prop)

SpecSb == InitSb /\ [][NextSb]_vars

\* ------------------------------------------ the chat page and the backend

PageTexts == {Blank, Text(<<" ", "o", "k">>, 0), CrisisText}

PageOutcomes == {Outcome("sadness", 95), Outcome("joy", 10)}

InitPage == DataIdle /\ det = NoDet /\ dash = NoDash /\ CheckInIdle /\ ClientIdle

NextPage ==
    \/ Mount
    \/ \E s \in {"u1", Null} : checkAuth(s)
    \/ \E t \in PageTexts : Type(t)
    \/ handleSend
    \/ \E r \in ReqIds, o \in PageOutcomes : Classify(r, o)
    \/ \E r \in ReqIds : CrisisCheck(r)
    \/ \E r \in ReqIds : Generate(r, TRUE)
    \/ \E r \in ReqIds : Persist(r, {})
    \/ \E r \in ReqIds : Respond(r)
    \/ \E r \in ReqIds : SendResolve(r)
    \/ \E r \in ReqIds : SendReject(r)
    \/ CloseCrisisModal

SpecPage == InitPage /\ [][NextPage]_vars

\* -------------------------------------- the chat turn and the confidence

ClampConfs == {0 - 5, 0, 50, 100, 120}

ClampOutcomes == {Outcome(l, c) : l \in {"joy", "sadness"}, c \in ClampConfs}

InitClamp == DataIdle /\ det = NoDet /\ dash = NoDash /\ CheckInIdle /\ ClientIdle

NextClamp ==
    \/ \E u \in Users, t \in {Benign, AtLimit} :
          nextReq <= MaxTurns /\ PostChat(u, u, t)
    \/ \E r \in ReqIds, o \in ClampOutcomes : Classify(r, o)
    \/ \E r \in ReqIds : CrisisCheck(r)
    \/ \E r \in ReqIds : Generate(r, TRUE)
    \/ \E r \in ReqIds : Persist(r, {})
    \/ \E r \in ReqIds : Respond(r)

SpecClamp == InitClamp /\ [][NextClamp]_vars

\* ------------------------------- the chat page with its mood check-in

InitPageCheckIn ==
    /\ DataIdle
    /\ det = NoDet /\ dash = NoDash
    /\ ClientIdle
    /\ variant \in {"blocking", "optimistic"}
    /\ lastMoodCheckIn = <<>>
    /\ page = NoChatPage
    /\ form = NoForm
    /\ pending = 0
    /\ toast = Null
    /\ loads = 0
    /\ shown = {}
    /\ fetched = Null

NextPageCheckIn ==
    \/ Mount
    \/ checkAuth("u1")
    \/ \E t \in {Blank, Text(<<" ", "o", "k">>, 0)} : Type(t)
    \/ handleSend
    \/ \E r \in ReqIds : Classify(r, Outcome("joy", 10))
    \/ \E r \in ReqIds : CrisisCheck(r)
    \/ \E r \in ReqIds : Generate(r, TRUE)
    \/ \E r \in ReqIds : Persist(r, {})
    \/ \E r \in ReqIds : Respond(r)
    \/ \E r \in ReqIds : SendResolve(r)
    \/ \E r \in ReqIds : SendReject(r)
    \/ ShowTimer
    \/ Select("joy")
    \/ onClose
    \/ handleSubmit
    \/ \E res \in {"ok", "error"} : FetchDone(res)
    \/ CloseTimer

SpecPageCheckIn == InitPageCheckIn /\ [][NextPageCheckIn]_vars

\* ------------------------------------------------ the dashboard page alone

RunIds == 1..MaxRuns

InitDash == DataIdle /\ det = NoDet /\ dash = NoDash /\ CheckInIdle /\ ClientIdle

NextDash ==
    \/ nextReq <= MaxTurns /\ PostChat("u1", "u1", CrisisText)
    \/ \E r \in ReqIds, o \in DataOutcomes : Classify(r, o)
    \/ \E r \in ReqIds : CrisisCheck(r)
    \/ \E r \in ReqIds : Generate(r, TRUE)
    \/ \E r \in ReqIds : Persist(r, {})
    \/ \E r \in ReqIds : Respond(r)
    \/ Tick
    \/ DashMount
    \/ \E d \in DaysOptions : setDays(d)
    \/ \E i \in RunIds, s \in {"u1", Null} : fetchDataSession(i, s)
    \/ \E i \in RunIds : fetchDataResolve(i)
    \/ \E i \in RunIds : fetchDataReject(i)

SpecDash == InitDash /\ [][NextDash]_vars

\* ------------------------------------------------------------------ claims

TooLongOrEmpty(t) == TextLen(t) = 0 \/ TextLen(t) > MaxMessageLength

\* C1: a chat turn whose message text is empty or longer than 2000
\* characters ends Failed with InvalidInput, and no external service
\* (classifier, generator, store) is called for it and no row is written.
C1_InvalidInputRejected ==
    \A r \in ReqIds :
        (reqs[r].pc # "None" /\ TooLongOrEmpty(reqs[r].message)) =>
            /\ reqs[r].pc \in {"Received", "Failed"}
            /\ reqs[r].pc = "Failed" => reqs[r].error = "InvalidInput"
            /\ reqs[r].called = {}
            /\ reqs[r].rows = {}
            /\ \A c \in chats : c.message # reqs[r].message

C1_Witness ==
    \E r1, r2 \in ReqIds :
        /\ reqs[r1].pc = "Failed" /\ TextLen(reqs[r1].message) = 0
        /\ reqs[r2].pc = "Failed" /\ TextLen(reqs[r2].message) > MaxMessageLength

\* C2: isolation.  A request made by user A returns no row owned by another
\* user, and writes no row owned by another user.
C2_Isolation ==
    /\ moodResp.caller # Null => moodResp.owners \subseteq {moodResp.caller}
    /\ \A r \in ReqIds :
          /\ \A c \in chats : c.id \in reqs[r].rows => c.user_id = reqs[r].caller
          /\ \A m \in mood_logs : m.id \in reqs[r].rows => m.user_id = reqs[r].caller

\* C3: the crisis flag is true exactly when the text holds a crisis phrase
\* in any case, or the label is sadness, fear or anger with a confidence above
\* the high-risk threshold; so a text with a phrase is flagged for every
\* label and confidence.
C3_CrisisFlag ==
    det.done =>
        /\ det.flag = (\/ det.text \in PhraseTexts
                       \/ /\ det.label \in {"sadness", "fear", "anger"}
                          /\ det.conf > HighRiskThreshold)
        /\ det.text \in PhraseTexts => det.flag

C3_Witness ==
    /\ det.done
    /\ det.text = CrisisText
    /\ det.label = "joy"
    /\ det.conf = 0
    /\ det.flag

PcOrder ==
    { <<"None", "Received">>, <<"Received", "Failed">>,
      <<"Received", "Classified">>, <<"Classified", "CrisisChecked">>,
      <<"CrisisChecked", "Generated">>, <<"Generated", "Persisted">>,
      <<"Persisted", "Responded">> }

C5_FallbackKeepsCrisis ==
    \A r \in ReqIds :
        /\ reqs[r].pc \in {"Generated", "Persisted", "Responded"} =>
              reqs[r].crisis = reqs[r].step3
        /\ (reqs[r].pc = "Responded" /\ reqs[r].genFailed) =>
              /\ Response(reqs[r]).reply = FallbackReply
              /\ Response(reqs[r]).crisis = reqs[r].step3

C5_Witness ==
    \E r \in ReqIds :
        /\ reqs[r].pc = "Responded"
        /\ reqs[r].genFailed
        /\ ~reqs[r].step3
        /\ ~Response(reqs[r]).crisis

C6_Persisted(r) ==
    LET newChats == chats' \ chats
        newMoods == mood_logs' \ mood_logs
    IN  /\ Cardinality(newChats) = 2
        /\ \E a, b \in newChats : a.role = "user" /\ b.role = "assistant"
        /\ Cardinality(newMoods) = 1
        /\ \A c \in newChats : c.user_id = reqs[r].user_id
        /\ \A m \in newMoods : m.user_id = reqs[r].user_id
        /\ chats \subseteq chats'
        /\ mood_logs \subseteq mood_logs'
        /\ journal_entries' = journal_entries

C6_Responded(r) ==
    (reqs[r].pc = "Responded" /\ reqs[r].failed = {}) =>
        /\ reqs[r].outcome # Failure =>
              /\ Response(reqs[r]).emotion = reqs[r].outcome[1]
              /\ Response(reqs[r]).confidence = reqs[r].outcome[2]
        /\ reqs[r].outcome = Failure =>
              /\ Response(reqs[r]).emotion = "neutral"
              /\ Response(reqs[r]).confidence = 0

\* C6: a chat turn persisted with no failure adds exactly two chats rows,
\* one of role user and one of role assistant, and exactly one mood_logs row,
\* all owned by the request's user, and changes no other row; the response's
\* emotion and confidence are the classifier's.
C6_TurnRows ==
    /\ [][\A r \in ReqIds :
             (/\ reqs[r].pc = "Generated"
              /\ reqs'[r].pc = "Persisted"
              /\ reqs'[r].failed = {}) => C6_Persisted(r)]_vars
    /\ [](\A r \in ReqIds : C6_Responded(r))

C6_Witness ==
    \E r \in ReqIds :
        /\ reqs[r].pc = "Responded"
        /\ reqs[r].failed = {}
        /\ reqs[r].outcome = Outcome("sadness", 95)
        /\ Cardinality({c \in chats : c.id \in reqs[r].rows}) = 2
        /\ Cardinality({m \in mood_logs : m.id \in reqs[r].rows}) = 1

\* C7: a handleDelete issued by a user who does not own the entry removes
\* nothing: every row a delete removed is owned by its caller.
C7_ForeignDeleteRemovesNothing ==
    \A e \in lastDelete.removed : e.user_id = lastDelete.caller

C7_Witness ==
    /\ lastDelete.caller # Null
    /\ \E e \in journal_entries :
          e.id = lastDelete.id /\ e.user_id # lastDelete.caller

\* C8: when the signed-in owner deletes one of their own journal entries,
\* the row is removed from journal_entries.
C8_OwnerDeleteRemoves ==
    \A e \in journal_entries :
        ~(e.id = lastDelete.id /\ e.user_id = lastDelete.caller)

\* C9: the mood check-in popup is shown at most once per calendar day,
\* whether the user submitted a mood or dismissed the popup.
C9_OncePerDay ==
    \A a, b \in shown : a[1] = b[1] => a = b

\* C10: no existing row changes; chats and mood_logs rows are never
\* removed; a journal_entries row is removed only by a delete of that entry
\* called by its owner.
C10_RowsImmutable ==
    [][/\ chats \subseteq chats'
       /\ mood_logs \subseteq mood_logs'
       /\ \A e \in journal_entries :
             \/ e \in journal_entries'
             \/ /\ lastDelete'.caller = e.user_id
                /\ lastDelete'.id = e.id
                /\ \A x \in journal_entries' : x.id # e.id
       /\ \A x \in chats' : x \in chats \/ \A c \in chats : c.id # x.id
       /\ \A x \in mood_logs' : x \in mood_logs \/ \A m \in mood_logs : m.id # x.id]_vars

C10_Witness ==
    /\ chats # {}
    /\ mood_logs # {}
    /\ lastDelete.caller # Null
    /\ \E e \in journal_entries : e.user_id # lastDelete.caller /\ e.id = lastDelete.id
    /\ \E e \in journal_entries : e.user_id = lastDelete.caller

C13_LazyClient ==
    /\ sb.created <= 1
    /\ (Len(sb.used) + sb.throws = 0) => (sb.created = 0 /\ sb._supabase = 0)
    /\ \A i \in 1..Len(sb.used) :
          /\ sb.used[i][2] = sb.used[1][2]
          /\ sb.used[i][2] = sb._supabase
          /\ sb._supabase # 0
    /\ (sb.url \in {Null, ""} \/ sb.key \in {Null, ""}) =>
          /\ sb.used = <<>>
          /\ sb.created = 0
          /\ sb._supabase = 0
    /\ (sb.url \notin {Null, ""} /\ sb.key \notin {Null, ""}) => sb.throws = 0

C13_Witness ==
    /\ Len(sb.used) = MaxAccess
    /\ sb.created = 1
    /\ sb.used[1][1] # sb.used[2][1]

Roles == {"user", "assistant"}

\* C14: in every reachable state every row of chats and every message of
\* the chat page's list (welcome, user, reply and error messages) has the role
\* user or the role assistant.
C14_RolesTwoValued ==
    /\ \A c \in chats : c.role \in Roles
    /\ \A i \in 1..Len(messages) : messages[i].role \in Roles

C14_Witness ==
    /\ \E a, b \in chats : a.role = "user" /\ b.role = "assistant"
    /\ \E i, j, k, l \in 1..Len(messages) :
          /\ messages[i].id[1] = "welcome"
          /\ messages[j].id[1] = "user"
          /\ messages[k].id[1] = "ai"
          /\ messages[l].id[1] = "error"

\* C15: every mood_logs row has a confidence between 0 and 1 (0 and 100
\* percent); a classifier confidence outside that range is clamped into it,
\* so the turn of a classified message still writes its mood sample, with the
\* clamped confidence, when the store works.
C15_ConfidenceClamped ==
    /\ \A m \in mood_logs : m.confidence >= 0 /\ m.confidence <= 100
    /\ \A r \in ReqIds :
          (reqs[r].pc \in {"Persisted", "Responded"} /\ reqs[r].outcome # Failure) =>
             \E m \in mood_logs :
                /\ m.id \in reqs[r].rows
                /\ m.user_id = reqs[r].user_id
                /\ m.emotion = reqs[r].outcome[1]
                /\ m.confidence =
                      (IF reqs[r].outcome[2] < 0 THEN 0
                       ELSE IF reqs[r].outcome[2] > 100 THEN 100
                       ELSE reqs[r].outcome[2])

C15_Witness ==
    \E r \in ReqIds :
        /\ reqs[r].pc = "Responded"
        /\ reqs[r].outcome[2] = 120
        /\ \E m \in mood_logs : m.id \in reqs[r].rows /\ m.confidence = 100

\* C16 as stated: on the chat page at most one chat request (a POST /chat
\* of the page, by handleSend or by the mood check-in) is in flight at any
\* time.
C16_OneChatRequestInFlight == Cardinality(inflight) + pending <= 1

\* C16, amended: at most one request of handleSend is in flight at any
\* time, and a send attempted while an earlier send has not settled, or with
\* an input that is empty after trimming, or before the user id is known,
\* issues no request and leaves the message list unchanged.
C16_OneSendInFlight ==
    /\ [](Cardinality(inflight) <= 1)
    /\ [][(/\ sendLog'.flip # sendLog.flip
           /\ \/ inflight # {}
              \/ TextLen(Trim(input)) = 0
              \/ page.userId = Null)
          => /\ sendLog'.last # "sent"
             /\ nextReq' = nextReq
             /\ reqs' = reqs
             /\ inflight' = inflight
             /\ messages' = messages]_vars

C16_Witness ==
    /\ sendLog.last = "loading"
    /\ Cardinality(inflight) = 1
    /\ TextLen(Trim(input)) > 0
    /\ page.userId # Null

Last(seq) == seq[Len(seq)]

\* The step completes the send of request r on the page that made it.
Completes(r) == r \in inflight /\ r \notin inflight' /\ loads' = loads

\* C17: the message list starts with the welcome message and, while the
\* page lives, only grows at its end (a user message keeps its id, role and
\* text; only its emotion is filled in).  An accepted send appends the user's
\* message, its completion appends one assistant message directly after it
\* (the reply, or the fixed apology), so the list alternates user, assistant
\* after the welcome message and has 1 + 2n messages when n sends have
\* completed and none is in flight.
C17_MessageList ==
    /\ [](messages # <<>> =>
            /\ messages[1] = Welcome
            /\ \A i \in 2..Len(messages) :
                  messages[i].role = (IF i % 2 = 0 THEN "user" ELSE "assistant")
            /\ \A i \in 2..Len(messages) :
                  i % 2 = 1 =>
                     /\ messages[i].id[1] \in {"ai", "error"}
                     /\ messages[i - 1].id = <<"user", messages[i].id[2]>>
                     /\ messages[i].id[1] = "error" => messages[i].message = ApologyText
            /\ (Len(messages) % 2 = 1) = (inflight = {}))
    /\ [][loads' = loads =>
             /\ Len(messages') \in {Len(messages), Len(messages) + 1}
             /\ \A i \in 1..Len(messages) :
                   /\ messages'[i].id = messages[i].id
                   /\ messages'[i].role = messages[i].role
                   /\ messages'[i].message = messages[i].message
             /\ \A r \in ReqIds :
                   Completes(r) =>
                      /\ Len(messages') = Len(messages) + 1
                      /\ Last(messages).id = <<"user", r>>
                      /\ Last(messages').role = "assistant"
                      /\ Last(messages').id[2] = r
                      /\ Last(messages').id[1] = "ai" =>
                            Last(messages').message =
                               Text(<<Response(reqs[r]).reply>>, 0)
             /\ (nextReq' # nextReq) =>
                   /\ Len(messages') = Len(messages) + 1
                   /\ Last(messages') = UserMsg(nextReq, Trim(input))]_vars

C17_Witness ==
    /\ Len(messages) = 5
    /\ inflight = {}
    /\ messages[3].id[1] = "ai"
    /\ messages[5].id[1] = "error"
    /\ messages[2].emotion # Null

\* C18: isLoading, which shows the typing indicator, is true exactly while
\* a send of the page is in flight: from the accepted send until its request
\* resolves or rejects, and false whenever none is in flight.
C18_LoadingWhileInFlight ==
    /\ isLoading = (inflight # {})
    /\ isLoading => PageLive

C18_Witness ==
    /\ isLoading
    /\ inflight = {2}
    /\ Len(messages) = 4
    /\ messages[3].id[1] \in {"error"}

\* C19: when a send fails (sendMessage throws), the fixed apology is
\* appended as an assistant message, the user's message stays in the list
\* with no emotion, and latestEmotion and the crisis modal keep their values.
C19_FailedSend ==
    [][\A r \in ReqIds :
          (Completes(r) /\ Last(messages').id # <<"ai", r>>) =>
             /\ Len(messages') = Len(messages) + 1
             /\ SubSeq(messages', 1, Len(messages)) = messages
             /\ Last(messages').role = "assistant"
             /\ Last(messages').message = ApologyText
             /\ \E i \in 1..Len(messages') :
                   /\ messages'[i].id = <<"user", r>>
                   /\ messages'[i].message = reqs[r].message
                   /\ messages'[i].emotion = Null
             /\ latestEmotion' = latestEmotion
             /\ showCrisisModal' = showCrisisModal
             /\ isLoading' = FALSE]_vars

C19_Witness ==
    /\ Len(messages) = 5
    /\ messages[5].message = ApologyText
    /\ messages[4].emotion = Null
    /\ latestEmotion = "sadness"
    /\ showCrisisModal
    /\ inflight = {}

\* C20: the crisis modal opens only by a successful response with
\* crisis = true, and every such response leaves it open; a response with
\* crisis = false and a failed send leave it as it was; once open it is closed
\* only by the user's close, not by a later response.
C20_CrisisModal ==
    [][loads' = loads =>
          /\ (showCrisisModal' /\ ~showCrisisModal) =>
                \E r \in ReqIds :
                   /\ Completes(r)
                   /\ Last(messages').id = <<"ai", r>>
                   /\ Response(reqs[r]).crisis
          /\ \A r \in ReqIds :
                (Completes(r) /\ Last(messages').id = <<"ai", r>>) =>
                   showCrisisModal' =
                      (showCrisisModal \/ Response(reqs[r]).crisis)
          /\ \A r \in ReqIds :
                (Completes(r) /\ Last(messages').id # <<"ai", r>>) =>
                   showCrisisModal' = showCrisisModal
          /\ (showCrisisModal /\ ~showCrisisModal') =>
                /\ messages' = messages
                /\ inflight' = inflight
                /\ reqs' = reqs]_vars

C20_Witness ==
    /\ showCrisisModal
    /\ Len(messages) = 5
    /\ messages[3].id[1] = "ai"
    /\ messages[5].id[1] = "ai"
    /\ \E r \in ReqIds :
          /\ messages[5].id = <<"ai", r>>
          /\ ~Response(reqs[r]).crisis

\* C21: a successful response to request r puts the response's emotion on
\* the user message that made the request and in latestEmotion, and leaves
\* every other message of the list as it was (text, role, emotion and
\* timestamp); the reply is added after them.
C21_SuccessFrame ==
    [][\A r \in ReqIds :
          (Completes(r) /\ Last(messages').id = <<"ai", r>>) =>
             /\ Len(messages') = Len(messages) + 1
             /\ \E i \in 1..Len(messages) :
                   /\ messages[i].id = <<"user", r>>
                   /\ messages'[i] =
                         [messages[i] EXCEPT !.emotion = Response(reqs[r]).emotion]
             /\ latestEmotion' = Response(reqs[r]).emotion
             /\ \A j \in 1..Len(messages) :
                   messages[j].id # <<"user", r>> => messages'[j] = messages[j]]_vars

\* Two sends answered with different emotions: the first keeps its own.
C21_Witness ==
    /\ Len(messages) = 5
    /\ inflight = {}
    /\ messages[3].id[1] = "ai"
    /\ messages[5].id[1] = "ai"
    /\ messages[2].emotion # Null
    /\ messages[4].emotion # Null
    /\ messages[2].emotion # messages[4].emotion
    /\ latestEmotion = messages[4].emotion

\* The step is the return of the check-in's POST /chat to the page that
\* made it; fetched' tells how it returned.
CheckInReturns == pending' = pending - 1 /\ loads' = loads

\* C22: in the blocking check-in, lastMoodCheckIn is set and the success
\* state is shown only by the step in which the POST /chat call returns
\* without throwing, never before; when the call throws, the flag, the form
\* (selected mood, not submitted) and the popup stay as they were, so that the
\* user can submit again.
C22_BlockingMarksAfterSave ==
    [][variant = "blocking" =>
          /\ (lastMoodCheckIn' # lastMoodCheckIn \/ (form'.submitted /\ ~form.submitted)) =>
                (CheckInReturns /\ fetched' # "error")
          /\ (CheckInReturns /\ fetched' = "error") =>
                /\ lastMoodCheckIn' = lastMoodCheckIn
                /\ form' = form
                /\ page' = page]_vars

C22_Witness ==
    /\ variant = "blocking"
    /\ fetched = "error"
    /\ pending = 0
    /\ PopupVisible
    /\ form.selected # Null
    /\ ~form.submitted
    /\ lastMoodCheckIn = <<>>

\* C23: in the optimistic check-in, the submit closes the popup and sets
\* lastMoodCheckIn to today's string in the step that issues the request;
\* the return of the request, whatever it is, changes neither and only shows
\* a toast (success on a success status, error otherwise); and while
\* lastMoodCheckIn is today's string the popup is neither open nor about to
\* open.
C23_OptimisticMarksAtSubmit ==
    /\ [](variant = "optimistic" /\ lastMoodCheckIn = DateString(now) =>
             ~page.showMoodCheckIn /\ ~page.timer)
    /\ [][variant = "optimistic" =>
             /\ (pending' = pending + 1) =>
                   /\ form.selected # Null
                   /\ ~page'.showMoodCheckIn
                   /\ lastMoodCheckIn' = DateString(now)
             /\ CheckInReturns =>
                   /\ page' = page
                   /\ lastMoodCheckIn' = lastMoodCheckIn
                   /\ toast' = (IF fetched' = "ok" THEN "success" ELSE "error")]_vars

\* A failed save, then a reload on the same day: no popup.
C23_Witness ==
    /\ variant = "optimistic"
    /\ fetched \in {"notok", "error"}
    /\ lastMoodCheckIn = DateString(now)
    /\ loads = 2
    /\ page.pc = "ready"
    /\ ~page.timer
    /\ ~page.showMoodCheckIn

\* C24: in the blocking check-in, the success state is shown and
\* lastMoodCheckIn is set only when the POST /chat response has a success
\* status.
C24_DoneOnlyOnSuccessStatus ==
    [][variant = "blocking" =>
          ((lastMoodCheckIn' # lastMoodCheckIn \/ (form'.submitted /\ ~form.submitted)) =>
              (CheckInReturns /\ fetched' = "ok"))]_vars

\* C25: on the dashboard, when no call of getMoodHistory is outstanding
\* and the call for the selected range has returned data, the mood data
\* shown is that data, whatever the selections were and in whatever order the
\* answers arrived.
C25_ShowsSelectedRange ==
    (/\ dash.pc = "mounted"
     /\ dash.runs # <<>>
     /\ \A i \in 1..Len(dash.runs) : dash.runs[i].stage \in {"done", "failed"}
     /\ Last(dash.runs).stage = "done")
    => /\ Last(dash.runs).days = dash.days
       /\ dash.moodData = Last(dash.runs).result

====
